---- MODULE Spec2Model ----
(***************************************************************************)
(* The chunking pipeline of infinity-storage: handleUpload (api/api.go)    *)
(* frames a streamed multipart part into chunks and pushes them onto the   *)
(* bounded channel a.queue; uploaderWorker (api/uploader.go) pops chunks,  *)
(* sends their bytes with SendFile and records them with AddChunkToFile.   *)
(*                                                                         *)
(* Bytes of an upload stream are represented by position tags (the i-th    *)
(* byte of the p-th part is Tag(p, i)); the framing code never inspects a  *)
(* byte value, and 0 is the value of a byte of a freshly made backing      *)
(* array.  The stream is revealed as it is read: every part.Read returns   *)
(* the next n bytes and nil, io.EOF or an error, so the stream length is   *)
(* whatever `total` is when io.EOF arrives.                                *)
(***************************************************************************)
EXTENDS Integers, Sequences, FiniteSets, TLC

\* ---- bounds of the model ------------------------------------------------
\* ChunkSize and the read buffer are 20 MiB and 64 KiB in the source
\* (api.go:145, api.go:257); the framing loop uses them only in comparisons
\* and slice bounds, and the model runs it with small values.
ChunkSize == 2
ReadBufSize == 2
\* longest stream of a part: three frames, the last one short
MaxLen == 2 * ChunkSize + 1
MaxParts == 2

\* capacity of a.queue: make(chan *db.Chunk, 5)
QueueCap == 5

\* the upload requests: the one Spec follows in full, and the second of the
\* scenario of two concurrent uploads
Reqs == {1, 2}
BufIds == Reqs \X (1..MaxParts)

\* the calls of GET /get_api_key that run concurrently
Callers == {1, 2}

\* the chunk size of POST /new is 10 MiB in the source (api.go:86)
NewChunkSize == 2
\* largest declared size: three chunks, the last one short
MaxNewSize == 2 * NewChunkSize + 1
\* number of POST /new requests
MaxNew == 2

\* UploadManager.maxConcurrentUploads (upload.js) and CONFIG.RETRY_ATTEMPTS
\* (api.js)
maxConcurrentUploads == 3
RETRY_ATTEMPTS == 3

\* the files the user selects in the browser: one more than may upload at
\* a time; and the clicks on "retry" per file
MaxItems == maxConcurrentUploads + 1
MaxRetryClicks == 1
MaxRetriesOption == 1
Items == 1..MaxItems

\* up .. keys: the server (handlers of POST /upload, worker, store);
\* gen: the NewAPIKey calls; rnew: the responses of POST /new;
\* mgr: the UploadManager object of the browser frontend
VARIABLES up, heap, queue, wpc, cur, sent, files, chunks, keys, gen, rnew, mgr,
          call

vars ==
    <<up, heap, queue, wpc, cur, sent, files, chunks, keys, gen, rnew, mgr,
      call>>

\* the key strings of the Key records
storedKeys == {keys[i].Key : i \in 1..Len(keys)}

\* ---- values ---------------------------------------------------------------
Tag(p, i) == 10 * p + i

\* the bytes from..to of the stream of part p
Stream(p, from, to) == [i \in 1..(to - from + 1) |-> Tag(p, from + i - 1)]

KeyStrs == {"", "k1", "bad"}

\* An Authorization header value: the string (bearer ? "Bearer " : "") + key.
AuthVals == [bearer : BOOLEAN, key : KeyStrs]

\* Content types: multipart/form-data with a boundary parameter, without one,
\* with a parameter list mime.ParseMediaType rejects, and anything else.
ContentTypes == {"mp_boundary", "mp_noboundary", "mp_malformed", "other"}

Headers == [auth : AuthVals, xkey : KeyStrs, ct : ContentTypes]

NoChunk ==
    [FileID |-> 0, Position |-> 0, Size |-> 0, Status |-> "",
     TelegramFileID |-> 0, Data |-> [buf |-> <<0, 0>>, len |-> 0], frame |-> <<>>,
     seq |-> 0]

IdleReq ==
    [pc |-> "idle", ct |-> "other", known |-> FALSE, key |-> "", fileID |-> 0,
     parts |-> 0, nfile |-> 0, filename |-> <<>>, total |-> 0, chunk |-> 0,
     chunkIndex |-> 0, data |-> <<>>, rerr |-> "nil", resp |-> 0,
     frames |-> <<>>, ncreate |-> 0, nfinal |-> 0, enq |-> <<>>, sizes |-> <<>>]

\* a NewAPIKey call before keyGenerator has run
IdleCall == [pc |-> "start", newKey |-> "", ret |-> "", code |-> 0]

\* an upload item that createUploadItem has not made yet
NoItem == [status |-> "none", retryCount |-> 0]

\* new UploadManager() (upload.js:7-14); xhr: the items whose
\* api.uploadFile promise is pending; timers: the pending setTimeout calls
\* of removeUploadItem
NewManager ==
    [item |-> [i \in Items |-> NoItem], activeUploads |-> {},
     uploadQueue |-> <<>>, isProcessing |-> FALSE, xhr |-> {}, timers |-> {}]

\* the options of a request() call: retries absent, or a number
Options ==
    {[has |-> FALSE, retries |-> 0]} \cup
    {[has |-> TRUE, retries |-> n] : n \in 0..MaxRetriesOption}

\* no error caught yet; status 0 stands for a status that is undefined
NoError == [name |-> "none", status |-> 0]

\* InfinityAPI.request before it is called; made and errors record the calls
\* of _makeRequest and what they threw
IdleRequest ==
    [pc |-> "idle", options |-> [has |-> FALSE, retries |-> 0],
     maxRetries |-> 0, attempt |-> 0, lastError |-> NoError, made |-> 0,
     errors |-> <<>>]

Init ==
    /\ up = [r \in Reqs |-> IdleReq]
    /\ heap = [b \in BufIds |-> [i \in 1..ChunkSize |-> 0]]
    /\ queue = <<>>
    /\ wpc = "recv"
    /\ cur = NoChunk
    /\ sent = <<>>
    /\ files = <<>>
    /\ chunks = <<>>
    /\ keys = <<[ID |-> 1, Key |-> "k1"]>>
    /\ gen = [g \in Callers |-> IdleCall]
    /\ rnew = <<>>
    /\ mgr = NewManager
    /\ call = IdleRequest

\* the process is alive until uploaderWorker panics
alive == wpc # "panic"


\* ---- validateAPIKey (api.go:335-352), GetAPIKey (keys.go:34-41) -----------
\* c.Get("Authorization") != ""
authPresent(h) == h.auth.bearer \/ h.auth.key # ""

\* the key the handler looks up: the Authorization value with "Bearer "
\* trimmed when that header is non-empty, the X-API-Key value otherwise
presentedKey(h) == IF authPresent(h) THEN h.auth.key ELSE h.xkey

GetAPIKeyAcceptsAll(k) == TRUE

\* GetAPIKey returns an error unless a Key record holds k
GetAPIKey(k) == k \in storedKeys

\* err = TRUE stands for the 401 fiber error
validateAPIKey(h) ==
    LET key == presentedKey(h) IN
    IF key = "" THEN [err |-> TRUE, key |-> ""]
    ELSE IF ~GetAPIKey(key) THEN [err |-> TRUE, key |-> ""]
    ELSE [err |-> FALSE, key |-> key]

\* strings.HasPrefix(ct, "multipart/form-data")
isMultipart(ct) == ct \in {"mp_boundary", "mp_noboundary", "mp_malformed"}

\* mime.ParseMediaType(ct) returns an error
parseMediaTypeFails(ct) == ct = "mp_malformed"

\* params["boundary"] is the empty string
boundaryEmpty(ct) == ct # "mp_boundary"

\* The request presents, in either header, a key the store knows.
presentsKnownKey(h) == h.auth.key \in storedKeys \/ h.xkey \in storedKeys

respond(u, code) == [u EXCEPT !.pc = "done", !.resp = code]

\* ---- handleUpload, lines 210-232: validation up to multipart.NewReader ----
handleUploadBegin(r, h) ==
    /\ alive
    /\ up[r].pc = "idle"
    /\ LET v == validateAPIKey(h)
           u == [up[r] EXCEPT !.ct = h.ct, !.known = presentsKnownKey(h)]
       IN up' = [up EXCEPT ![r] =
                   IF v.err THEN respond(u, 401)
                   ELSE IF ~isMultipart(h.ct) THEN respond(u, 400)
                   ELSE IF parseMediaTypeFails(h.ct) THEN respond(u, 500)
                   ELSE [u EXCEPT !.pc = "create", !.key = v.key]]
    /\ UNCHANGED <<heap, queue, wpc, cur, sent, files, chunks, keys, gen, rnew,
                   mgr, call>>

\* ---- CreateNewFile (files.go:19-32) -------------------------------------
NewFile(key) ==
    [FileName |-> <<>>, Size |-> 0, TotalChunks |-> 0, Status |-> "uploading",
     OwnerAPIKey |-> key]

CreateNewFileNoRow(r) ==
    /\ alive
    /\ up[r].pc = "create"
    /\ up' = [up EXCEPT ![r].pc = "nextpart", ![r].fileID = Len(files) + 1,
                        ![r].ncreate = @ + 1]
    /\ UNCHANGED <<heap, queue, wpc, cur, sent, files, chunks, keys, gen, rnew,
                   mgr, call>>

\* handleUpload, lines 235-239: the placeholder File record
CreateNewFile(r) ==
    /\ alive
    /\ up[r].pc = "create"
    /\ files' = Append(files, NewFile(up[r].key))
    /\ up' = [up EXCEPT ![r].pc = "nextpart", ![r].fileID = Len(files) + 1,
                        ![r].ncreate = @ + 1]
    /\ UNCHANGED <<heap, queue, wpc, cur, sent, chunks, keys, gen, rnew,
                   mgr, call>>

\* db.DB.Create fails: 500 "failed to create file"
CreateNewFileFails(r) ==
    /\ alive
    /\ up[r].pc = "create"
    /\ up' = [up EXCEPT ![r] = respond(@, 500)]
    /\ UNCHANGED <<heap, queue, wpc, cur, sent, files, chunks, keys, gen, rnew,
                   mgr, call>>

\* ---- handleUpload, lines 241-260: the part loop ---------------------------
\* mr.NextPart() returns io.EOF: the handler answers 202 (line 332)
NextPartEOF(r) ==
    /\ alive
    /\ up[r].pc = "nextpart"
    /\ ~boundaryEmpty(up[r].ct)
    /\ up' = [up EXCEPT ![r] = respond(@, 202)]
    /\ UNCHANGED <<heap, queue, wpc, cur, sent, files, chunks, keys, gen, rnew,
                   mgr, call>>

\* mr.NextPart() returns an error; with an empty boundary it always does
\* ("multipart: boundary is empty").  The handler returns it (line 247).
NextPartError(r) ==
    /\ alive
    /\ up[r].pc = "nextpart"
    /\ up' = [up EXCEPT ![r] = respond(@, 500)]
    /\ UNCHANGED <<heap, queue, wpc, cur, sent, files, chunks, keys, gen, rnew,
                   mgr, call>>

NextPartOtherCounts(r) ==
    /\ alive
    /\ up[r].pc = "nextpart"
    /\ ~boundaryEmpty(up[r].ct)
    /\ up[r].parts < MaxParts
    /\ up' = [up EXCEPT ![r].parts = @ + 1, ![r].chunkIndex = @ + 1]
    /\ UNCHANGED <<heap, queue, wpc, cur, sent, files, chunks, keys, gen, rnew,
                   mgr, call>>

\* a part whose form name is not "file": continue (lines 250-252)
NextPartOther(r) ==
    /\ alive
    /\ up[r].pc = "nextpart"
    /\ ~boundaryEmpty(up[r].ct)
    /\ up[r].parts < MaxParts
    /\ up' = [up EXCEPT ![r].parts = @ + 1]
    /\ UNCHANGED <<heap, queue, wpc, cur, sent, files, chunks, keys, gen, rnew,
                   mgr, call>>

\* a part named "file": lines 254-260 make readBuf and a fresh backing array
\* for chunk, and reset chunkIndex and total
NextPartFile(r) ==
    /\ alive
    /\ up[r].pc = "nextpart"
    /\ ~boundaryEmpty(up[r].ct)
    /\ up[r].parts < MaxParts
    /\ up' = [up EXCEPT ![r].parts = @ + 1, ![r].nfile = @ + 1,
                        ![r].filename = <<up[r].parts + 1>>,
                        ![r].chunk = 0, ![r].chunkIndex = 1, ![r].total = 0,
                        ![r].data = <<>>, ![r].rerr = "nil",
                        ![r].frames = <<>>, ![r].pc = "read"]
    /\ UNCHANGED <<heap, queue, wpc, cur, sent, files, chunks, keys, gen, rnew,
                   mgr, call>>


\* ---- handleUpload, lines 262-303: the framing loop ------------------------
\* the backing array of the current part's chunk slice (line 258)
bufOf(r) == <<r, up[r].parts>>

\* the bytes of the slice chunk: chunk[0:len]
chunkBytes(r) == SubSeq(heap[bufOf(r)], 1, up[r].chunk)

afterLoopSkipsTail(u) ==
    IF u.rerr = "EOF" THEN [u EXCEPT !.pc = "finalize", !.sizes = Append(@, u.total)]
    ELSE IF u.rerr = "err" THEN respond(u, 500)
    ELSE [u EXCEPT !.pc = "read"]

\* lines 297-302, reached when the inner loop is over (len(data) = 0)
afterLoop(u) ==
    IF u.rerr = "EOF" THEN [u EXCEPT !.pc = "tail"]
    ELSE IF u.rerr = "err" THEN respond(u, 500)
    ELSE [u EXCEPT !.pc = "read"]

\* space := ChunkSize - len(chunk) (line 269)
space(len) == ChunkSize - len

\* append(chunk, bytes...): len(chunk)+len(bytes) never exceeds the capacity,
\* so append writes into the backing array in place
appendInPlace(arr, len, bytes) ==
    [i \in 1..ChunkSize |->
        IF i > len /\ i <= len + Len(bytes) THEN bytes[i - len] ELSE arr[i]]

restDropsSplit(data, sp) ==
    IF sp < ChunkSize THEN <<>> ELSE SubSeq(data, sp + 1, Len(data))

restSkipsOne(data, sp) == SubSeq(data, sp + 2, Len(data))

\* data = data[space:] (line 276)
rest(data, sp) == SubSeq(data, sp + 1, Len(data))

\* One iteration of `for len(data) > 0` (lines 268-277) from the handler
\* state u, whose data is not empty: either all of data fits with room to
\* spare and the loop is over, or the chunk is filled and the handler is at
\* the channel send of line 284.
fill(r, u) ==
    LET sp == space(u.chunk) IN
    IF sp > Len(u.data)
    THEN /\ heap' = [heap EXCEPT ![bufOf(r)] = appendInPlace(@, u.chunk, u.data)]
         /\ up' = [up EXCEPT ![r] =
                     afterLoop([u EXCEPT !.chunk = @ + Len(u.data), !.data = <<>>])]
    ELSE /\ heap' = [heap EXCEPT ![bufOf(r)] =
                        appendInPlace(@, u.chunk, SubSeq(u.data, 1, sp))]
         /\ up' = [up EXCEPT ![r] =
                     [u EXCEPT !.chunk = u.chunk + sp, !.data = rest(u.data, sp),
                               !.pc = "push"]]

\* the handler state after part.Read returned n bytes and e (lines 263-266)
afterRead(u, n, e) ==
    [u EXCEPT !.data = Stream(u.parts, u.total + 1, u.total + n),
              !.total = @ + n, !.rerr = e]

\* n, err := part.Read(readBuf) returns the next n bytes of the stream and
\* nil or io.EOF; the handler runs on to its next channel send or read.  The
\* stream is at most max bytes long.
ReadUpTo(r, max) ==
    /\ alive
    /\ up[r].pc = "read"
    /\ \E n \in 0..ReadBufSize, e \in {"nil", "EOF"} :
         /\ up[r].total + n <= max
         /\ ~(n = 0 /\ e = "nil")
         /\ IF n > 0
            THEN fill(r, afterRead(up[r], n, e))
            ELSE /\ up' = [up EXCEPT ![r] = afterLoop(afterRead(@, n, e))]
                 /\ heap' = heap
    /\ UNCHANGED <<queue, wpc, cur, sent, files, chunks, keys, gen, rnew,
                   mgr, call>>

Read(r) == ReadUpTo(r, MaxLen)

ReadErrorDropsQueue(r) ==
    /\ alive
    /\ up[r].pc = "read"
    /\ up' = [up EXCEPT ![r] = afterLoop(afterRead(@, 0, "err"))]
    /\ queue' = <<>>
    /\ UNCHANGED <<heap, wpc, cur, sent, files, chunks, keys, gen, rnew,
                   mgr, call>>

\* part.Read returns a non-EOF error, with or without bytes
ReadError(r) ==
    /\ alive
    /\ up[r].pc = "read"
    /\ \E n \in 0..ReadBufSize :
         /\ up[r].total + n <= MaxLen
         /\ IF n > 0
            THEN fill(r, afterRead(up[r], n, "err"))
            ELSE /\ up' = [up EXCEPT ![r] = afterLoop(afterRead(@, n, "err"))]
                 /\ heap' = heap
    /\ UNCHANGED <<queue, wpc, cur, sent, files, chunks, keys, gen, rnew,
                   mgr, call>>

\* the number of channel sends so far, plus one: every chunk sent is on the
\* queue, with the worker or in the store
nextSeq == Len(queue) + (IF cur.FileID # 0 THEN 1 ELSE 0) + Len(chunks) + 1

\* &db.Chunk{FileID, Position, Size, Data: chunk}: Status and TelegramFileID
\* keep their zero values; Data shares the backing array of chunk.  frame
\* records the bytes of the payload at this moment and seq the rank of the
\* channel send: the two identify the object, they are no fields of it.
newChunk(r) ==
    [FileID |-> up[r].fileID, Position |-> up[r].chunkIndex,
     Size |-> up[r].chunk, Status |-> "", TelegramFileID |-> 0,
     Data |-> [buf |-> bufOf(r), len |-> up[r].chunk],
     frame |-> chunkBytes(r), seq |-> nextSeq]

canSendAlways == TRUE

\* a.queue <- chunk blocks while the channel holds QueueCap chunks
canSend == Len(queue) < QueueCap

\* lines 284-292: push the full chunk, chunkIndex++, chunk = chunk[:0]; the
\* handler then runs on with what is left of data
Push(r) ==
    /\ alive
    /\ up[r].pc = "push"
    /\ canSend
    /\ queue' = Append(queue, newChunk(r))
    /\ LET u == [up[r] EXCEPT !.chunkIndex = @ + 1, !.chunk = 0,
                              !.frames = Append(@, chunkBytes(r)),
                              !.enq = Append(@, up[r].chunkIndex)]
       IN IF Len(u.data) > 0
          THEN fill(r, u)
          ELSE /\ up' = [up EXCEPT ![r] = afterLoop(u)]
               /\ heap' = heap
    /\ UNCHANGED <<wpc, cur, sent, files, chunks, keys, gen, rnew, mgr, call>>

hasTailAbove1(len) == len > 1

\* if len(chunk) > 0 (line 306)
hasTail(len) == len > 0

\* lines 305-318: the short last chunk
PushTail(r) ==
    /\ alive
    /\ up[r].pc = "tail"
    /\ IF hasTail(up[r].chunk)
       THEN /\ canSend
            /\ queue' = Append(queue, newChunk(r))
            /\ up' = [up EXCEPT ![r].frames = Append(@, chunkBytes(r)),
                                ![r].enq = Append(@, up[r].chunkIndex),
                                ![r].sizes = Append(@, up[r].total),
                                ![r].pc = "finalize"]
       ELSE /\ queue' = queue
            /\ up' = [up EXCEPT ![r].sizes = Append(@, up[r].total),
                                ![r].pc = "finalize"]
    /\ UNCHANGED <<heap, wpc, cur, sent, files, chunks, keys, gen, rnew,
                   mgr, call>>

totalChunksFloor(total) == total \div ChunkSize

totalChunksPlusOne(total) == total \div ChunkSize + 1

\* int(math.Ceil(float64(total) / float64(ChunkSize))) (line 321)
totalChunks(total) ==
    IF total % ChunkSize = 0 THEN total \div ChunkSize ELSE total \div ChunkSize + 1

\* ---- UpdateFileMetadata (files.go:34-51), called at line 322 --------------
UpdateFileMetadata(r) ==
    /\ alive
    /\ up[r].pc = "finalize"
    /\ files' = [files EXCEPT ![up[r].fileID] =
                   [@ EXCEPT !.FileName = up[r].filename, !.Size = up[r].total,
                             !.TotalChunks = totalChunks(up[r].total),
                             !.Status = "completed"]]
    /\ up' = [up EXCEPT ![r].pc = "nextpart", ![r].nfinal = @ + 1]
    /\ UNCHANGED <<heap, queue, wpc, cur, sent, chunks, keys, gen, rnew,
                   mgr, call>>

\* the store fails the read or the save: the handler only logs (lines 322-325)
UpdateFileMetadataFails(r) ==
    /\ alive
    /\ up[r].pc = "finalize"
    /\ up' = [up EXCEPT ![r].pc = "nextpart"]
    /\ UNCHANGED <<heap, queue, wpc, cur, sent, files, chunks, keys, gen, rnew,
                   mgr, call>>


\* ---- uploaderWorker (uploader.go:15-34) -----------------------------------
ReceivePeek ==
    /\ wpc = "recv"
    /\ queue # <<>>
    /\ cur' = Head(queue)
    /\ sent' = <<>>
    /\ wpc' = "send"
    /\ UNCHANGED <<up, heap, queue, files, chunks, keys, gen, rnew, mgr, call>>

ReceiveNotFull ==
    /\ wpc = "recv"
    /\ queue # <<>>
    /\ Len(queue) < QueueCap
    /\ cur' = Head(queue)
    /\ queue' = Tail(queue)
    /\ sent' = <<>>
    /\ wpc' = "send"
    /\ UNCHANGED <<up, heap, files, chunks, keys, gen, rnew, mgr, call>>

ReceiveTwo ==
    /\ wpc = "recv"
    /\ queue # <<>>
    /\ cur' = Head(queue)
    /\ queue' = IF Len(queue) > 1 THEN Tail(Tail(queue)) ELSE Tail(queue)
    /\ sent' = <<>>
    /\ wpc' = "send"
    /\ UNCHANGED <<up, heap, files, chunks, keys, gen, rnew, mgr, call>>

\* chunk := <-a.queue blocks while the channel is empty
Receive ==
    /\ wpc = "recv"
    /\ queue # <<>>
    /\ cur' = Head(queue)
    /\ queue' = Tail(queue)
    /\ sent' = <<>>
    /\ wpc' = "send"
    /\ UNCHANGED <<up, heap, files, chunks, keys, gen, rnew, mgr, call>>

\* SendFile(name, chunk.Data) transmits the payload while the handlers keep
\* running: it reads the backing array byte by byte, unsynchronised with the
\* handler that made it (tgbot.go:39-45)
SendFileRead ==
    /\ wpc = "send"
    /\ Len(sent) < cur.Data.len
    /\ sent' = Append(sent, heap[cur.Data.buf][Len(sent) + 1])
    /\ UNCHANGED <<up, heap, queue, wpc, cur, files, chunks, keys, gen, rnew,
                   mgr, call>>

\* the file id Telegram returns for a document: a fresh non-empty reference
newTelegramFileID == Len(chunks) + 1

\* SendFile returns nil: lines 24-25 set the reference and drop the payload
SendFile ==
    /\ wpc = "send"
    /\ Len(sent) = cur.Data.len
    /\ cur' = [cur EXCEPT !.TelegramFileID = newTelegramFileID,
                          !.Data = NoChunk.Data]
    /\ wpc' = "record"
    /\ UNCHANGED <<up, heap, queue, sent, files, chunks, keys, gen, rnew,
                   mgr, call>>

SendFileFailsSkips ==
    /\ wpc = "send"
    /\ wpc' = "recv"
    /\ cur' = NoChunk
    /\ sent' = <<>>
    /\ UNCHANGED <<up, heap, queue, files, chunks, keys, gen, rnew, mgr, call>>

\* SendFile returns an error: panic(err) (lines 20-23) ends the process
SendFileFails ==
    /\ wpc = "send"
    /\ wpc' = "panic"
    /\ UNCHANGED <<up, heap, queue, cur, sent, files, chunks, keys, gen, rnew,
                   mgr, call>>

\* the row db.DB.Create(c) inserts (Data: the length of the stored payload);
\* seq tells which chunk object the row was made from
chunkRecord(c) ==
    [FileID |-> c.FileID, Position |-> c.Position, Size |-> c.Size,
     Status |-> c.Status, TelegramFileID |-> c.TelegramFileID,
     Data |-> c.Data.len, seq |-> c.seq]

\* AddChunkToFile (files.go:3-9) succeeds; then the 2 s pause and the next
\* iteration (lines 29-33)
AddChunkToFile ==
    /\ wpc = "record"
    /\ chunks' = Append(chunks, chunkRecord(cur))
    /\ cur' = NoChunk
    /\ sent' = <<>>
    /\ wpc' = "recv"
    /\ UNCHANGED <<up, heap, queue, files, keys, gen, rnew, mgr, call>>

\* AddChunkToFile returns an error: panic(err) (lines 29-31)
AddChunkToFileFails ==
    /\ wpc = "record"
    /\ wpc' = "panic"
    /\ UNCHANGED <<up, heap, queue, cur, sent, files, chunks, keys, gen, rnew,
                   mgr, call>>

uploaderWorker ==
    \/ Receive
    \/ SendFileRead
    \/ SendFile
    \/ AddChunkToFile

uploaderWorkerPanics ==
    \/ SendFileFails
    \/ AddChunkToFileFails

\* the steps of one handleUpload call that the scenario of a well-formed
\* request takes
handleUploadSteps(r) ==
    \/ CreateNewFile(r)
    \/ NextPartEOF(r)
    \/ NextPartOther(r)
    \/ NextPartFile(r)
    \/ Read(r)
    \/ Push(r)
    \/ PushTail(r)
    \/ UpdateFileMetadata(r)

handleUploadFailures(r) ==
    \/ CreateNewFileFails(r)
    \/ NextPartError(r)
    \/ ReadError(r)
    \/ UpdateFileMetadataFails(r)

\* One upload request, any headers and any body, with every failure of the
\* store, the stream and the transport.
Next ==
    \/ \E h \in Headers : handleUploadBegin(1, h)
    \/ handleUploadSteps(1)
    \/ handleUploadFailures(1)
    \/ uploaderWorker
    \/ uploaderWorkerPanics

Spec == Init /\ [][Next]_vars

\* ---- two concurrent uploads -----------------------------------------------
\* headers of a well-formed upload request carrying a key of the store
GoodHeaders == {h \in Headers : h.ct = "mp_boundary" /\ presentedKey(h) = "k1"}

\* a request whose body is one part named "file", served without failures
uploadOneFile(r) ==
    \/ \E h \in GoodHeaders : handleUploadBegin(r, h)
    \/ CreateNewFile(r)
    \/ up[r].nfile = 0 /\ NextPartFile(r)
    \/ up[r].nfile = 1 /\ NextPartEOF(r)
    \/ Read(r)
    \/ Push(r)
    \/ PushTail(r)
    \/ UpdateFileMetadata(r)

NextTwoUploads ==
    \/ \E r \in Reqs : uploadOneFile(r)
    \/ uploaderWorker

\* Goroutines that can run are scheduled, and the client keeps sending.
SpecTwoUploads ==
    /\ Init
    /\ [][NextTwoUploads]_vars
    /\ \A r \in Reqs : WF_vars(uploadOneFile(r))
    /\ WF_vars(uploaderWorker)

\* ---- one long upload -------------------------------------------------------
\* a stream long enough to fill the queue with full chunks and have one more
LongLen == (QueueCap + 1) * ChunkSize

\* a request whose body is one long part named "file"; the stream, the store
\* and the transport may fail
uploadLongFile ==
    \/ \E h \in GoodHeaders : handleUploadBegin(1, h)
    \/ CreateNewFile(1)
    \/ up[1].nfile = 0 /\ NextPartFile(1)
    \/ up[1].nfile = 1 /\ NextPartEOF(1)
    \/ ReadUpTo(1, LongLen)
    \/ ReadError(1)
    \/ Push(1)
    \/ PushTail(1)
    \/ UpdateFileMetadata(1)

NextLongUpload ==
    \/ uploadLongFile
    \/ uploaderWorker
    \/ uploaderWorkerPanics

SpecLongUpload == Init /\ [][NextLongUpload]_vars

\* ---- two framings of the same bytes ---------------------------------------
\* streams short enough for the chunks of two uploads to fit the queue
ShortLen == 2 * ChunkSize

\* a request whose body is one short part named "file"; the bytes of the
\* stream are the same for every request (Tag), the reads are chosen freely
uploadShortFile(r) ==
    \/ \E h \in GoodHeaders : handleUploadBegin(r, h)
    \/ CreateNewFile(r)
    \/ up[r].nfile = 0 /\ NextPartFile(r)
    \/ up[r].nfile = 1 /\ NextPartEOF(r)
    \/ ReadUpTo(r, ShortLen)
    \/ Push(r)
    \/ PushTail(r)
    \/ UpdateFileMetadata(r)

NextTwoFramings ==
    \/ \E r \in Reqs : uploadShortFile(r)
    \/ uploaderWorker

SpecTwoFramings == Init /\ [][NextTwoFramings]_vars

\* ---- an upload that may abort, with adapters that succeed ------------------
NextAbortedUpload ==
    \/ uploadLongFile
    \/ uploaderWorker

\* the worker goroutine is scheduled whenever it can run
SpecAbortedUpload ==
    /\ Init
    /\ [][NextAbortedUpload]_vars
    /\ WF_vars(uploaderWorker)

\* ---- NewAPIKey (keys.go:10-32), called by handleGetAPIKey ------------------
\* what keyGenerator can return: 32 random bytes, which may be those of a
\* key of the store or of a key another call has just generated
GenKeys == {"k1", "k2", "k3"}

serverVars == <<up, heap, queue, wpc, cur, sent, files, chunks>>

\* newKey, err := keyGenerator() (lines 11-14)
keyGenerator(g) ==
    /\ gen[g].pc = "start"
    /\ \E k \in GenKeys :
         gen' = [gen EXCEPT ![g].pc = "check", ![g].newKey = k]
    /\ UNCHANGED <<serverVars, keys, rnew, mgr, call>>

\* rand.Read fails: NewAPIKey returns the error, the handler answers 500
keyGeneratorFails(g) ==
    /\ gen[g].pc = "start"
    /\ gen' = [gen EXCEPT ![g].pc = "done", ![g].code = 500]
    /\ UNCHANGED <<serverVars, keys, rnew, mgr, call>>

\* res, err := db.isAPIKeyExist(newKey) (lines 16-25): a key that exists
\* makes NewAPIKey call itself, one that does not goes on to the insert
isAPIKeyExist(g) ==
    /\ gen[g].pc = "check"
    /\ gen' = [gen EXCEPT ![g].pc =
                 IF gen[g].newKey \in storedKeys THEN "start" ELSE "create"]
    /\ UNCHANGED <<serverVars, keys, rnew, mgr, call>>

\* the lookup fails with an error other than ErrRecordNotFound: panic(err)
isAPIKeyExistFails(g) ==
    /\ gen[g].pc = "check"
    /\ gen' = [gen EXCEPT ![g].pc = "panic"]
    /\ UNCHANGED <<serverVars, keys, rnew, mgr, call>>

\* db.DB.Create(&Key{Key: newKey}) (lines 27-31): Key has no unique index
\* (structs.go:36-40), the insert succeeds whatever the table holds
CreateKey(g) ==
    /\ gen[g].pc = "create"
    /\ keys' = Append(keys, [ID |-> Len(keys) + 1, Key |-> gen[g].newKey])
    /\ gen' = [gen EXCEPT ![g].pc = "done", ![g].ret = gen[g].newKey,
                          ![g].code = 200]
    /\ UNCHANGED <<serverVars, rnew, mgr, call>>

\* the insert fails: NewAPIKey returns the error, the handler answers 500
CreateKeyFails(g) ==
    /\ gen[g].pc = "create"
    /\ gen' = [gen EXCEPT ![g].pc = "done", ![g].code = 500]
    /\ UNCHANGED <<serverVars, keys, rnew, mgr, call>>

NewAPIKey(g) ==
    \/ keyGenerator(g)
    \/ isAPIKeyExist(g)
    \/ CreateKey(g)

NewAPIKeyFailures(g) ==
    \/ keyGeneratorFails(g)
    \/ isAPIKeyExistFails(g)
    \/ CreateKeyFails(g)

\* concurrent GET /get_api_key requests
NextNewAPIKey ==
    \E g \in Callers : NewAPIKey(g) \/ NewAPIKeyFailures(g)

SpecNewAPIKey == Init /\ [][NextNewAPIKey]_vars

\* ---- handleNew (api.go:79-94), POST /new -----------------------------------
\* the JSON bodies that parse: filename, size and key as the client gives
\* them (the handler checks none of them)
NewBodies == [filename : {<<1>>}, size : 0..MaxNewSize, key : {"k1", "bad"}]

numberOfChunksFloor(size) == size \div NewChunkSize

\* int(math.Ceil(float64(r.Size) / math.Ceil(float64(10*1024*1024))))
\* (line 86); float64 holds the sizes and the quotient exactly below 2^53
numberOfChunks(size) ==
    IF size % NewChunkSize = 0 THEN size \div NewChunkSize
    ELSE size \div NewChunkSize + 1

\* the record CreateNewFile(name, size, key, totalChunks) inserts
\* (files.go:19-32)
FileOf(name, size, key, total) ==
    [FileName |-> name, Size |-> size, TotalChunks |-> total,
     Status |-> "uploading", OwnerAPIKey |-> key]

\* the body parses and CreateNewFile succeeds: 202 with file_id and
\* number_of_chunks
handleNew ==
    /\ Len(rnew) < MaxNew
    /\ \E b \in NewBodies :
         LET n == numberOfChunks(b.size) IN
         /\ files' = Append(files, FileOf(b.filename, b.size, b.key, n))
         /\ rnew' = Append(rnew, [code |-> 202, file_id |-> Len(files) + 1,
                                  number_of_chunks |-> n, size |-> b.size])
    /\ UNCHANGED <<up, heap, queue, wpc, cur, sent, chunks, keys, gen,
                   mgr, call>>

\* c.BodyParser fails: 400 (lines 82-84)
handleNewBadBody ==
    /\ Len(rnew) < MaxNew
    /\ rnew' = Append(rnew, [code |-> 400, file_id |-> 0,
                             number_of_chunks |-> 0, size |-> 0])
    /\ UNCHANGED <<serverVars, keys, gen, mgr, call>>

\* CreateNewFile fails: 500 (lines 89-91)
handleNewCreateFails ==
    /\ Len(rnew) < MaxNew
    /\ \E b \in NewBodies :
         rnew' = Append(rnew, [code |-> 500, file_id |-> 0,
                                number_of_chunks |-> 0, size |-> b.size])
    /\ UNCHANGED <<serverVars, keys, gen, mgr, call>>

NextNew ==
    \/ handleNew
    \/ handleNewBadBody
    \/ handleNewCreateFails

SpecNew == Init /\ [][NextNew]_vars

\* ---- UploadManager (frontend upload.js) ------------------------------------
\* Each action is one run of browser JavaScript from an event (a click, a
\* timer, the settling of an upload) to the point where the code returns or
\* awaits.
itemsOf(q) == {q[k] : k \in 1..Len(q)}

\* Array.from(this.activeUploads.values())
\*     .filter(item => item.status === 'uploading').length
activeCount(m) ==
    Cardinality({i \in m.activeUploads : m.item[i].status = "uploading"})

loopStartsAll(m) ==
    [m EXCEPT !.item = [i \in Items |->
                          IF i \in itemsOf(m.uploadQueue)
                          THEN [@[i] EXCEPT !.status = "uploading"] ELSE @[i]],
              !.xhr = @ \cup itemsOf(m.uploadQueue),
              !.uploadQueue = <<>>,
              !.isProcessing = TRUE]

\* the while loop of processQueue from its top (lines 171-181): it takes
\* the head of the queue and runs uploadFile up to `await api.uploadFile`
\* (lines 189-198), or ends and clears isProcessing (line 183)
loop(m) ==
    IF m.uploadQueue # <<>> /\ activeCount(m) < maxConcurrentUploads
    THEN LET i == Head(m.uploadQueue) IN
         [m EXCEPT !.uploadQueue = Tail(@),
                   !.item[i].status = "uploading",
                   !.xhr = @ \cup {i},
                   !.isProcessing = TRUE]
    ELSE [m EXCEPT !.isProcessing = FALSE]

\* processQueue() (lines 166-184)
processQueue(m) == IF m.isProcessing THEN m ELSE loop(m)

\* the ids createUploadItem gives to the next n files
newItems(n) ==
    LET made == Cardinality({i \in Items : mgr.item[i].status # "none"})
    IN (made + 1)..(made + n)

RECURSIVE ascending(_)
\* the ids of a set in increasing order
ascending(S) ==
    IF S = {} THEN <<>>
    ELSE LET a == CHOOSE x \in S : \A y \in S : x <= y
         IN <<a>> \o ascending(S \ {a})

\* handleFileSelection with n valid files: queueFiles (lines 133-143)
queueFiles(n) ==
    /\ newItems(n) \subseteq Items
    /\ mgr' = processQueue(
                 [mgr EXCEPT !.item = [i \in Items |->
                                        IF i \in newItems(n)
                                        THEN [status |-> "queued", retryCount |-> 0]
                                        ELSE @[i]],
                             !.uploadQueue = @ \o ascending(newItems(n)),
                             !.activeUploads = @ \cup newItems(n)])
    /\ UNCHANGED <<serverVars, keys, gen, rnew, call>>

\* api.uploadFile resolves (lines 201-217), uploadFile calls processQueue
\* (line 235) and returns to the loop that awaited it
uploadResolves(i) ==
    /\ i \in mgr.xhr
    /\ mgr' = loop(processQueue(
                 [mgr EXCEPT !.item[i].status = "completed",
                             !.xhr = @ \ {i},
                             !.timers = @ \cup {i}]))
    /\ UNCHANGED <<serverVars, keys, gen, rnew, call>>

\* api.uploadFile rejects: the catch block (lines 219-231) marks the item
\* failed; then as above
uploadRejects(i) ==
    /\ i \in mgr.xhr
    /\ mgr' = loop(processQueue(
                 [mgr EXCEPT !.item[i].status = "failed",
                             !.xhr = @ \ {i}]))
    /\ UNCHANGED <<serverVars, keys, gen, rnew, call>>

\* a click on the retry button, shown for a failed item: retryUpload
\* (lines 447-456)
retryUpload(i) ==
    /\ i \in mgr.activeUploads
    /\ mgr.item[i].status = "failed"
    /\ mgr.item[i].retryCount < MaxRetryClicks
    /\ mgr' = processQueue(
                 [mgr EXCEPT !.item[i].status = "queued",
                             !.item[i].retryCount = @ + 1,
                             !.uploadQueue = Append(@, i)])
    /\ UNCHANGED <<serverVars, keys, gen, rnew, call>>

\* a click on the cancel button, shown for an uploading item: cancelUpload
\* (lines 459-466); the request itself is not aborted
cancelUpload(i) ==
    /\ i \in mgr.activeUploads
    /\ mgr.item[i].status = "uploading"
    /\ mgr' = [mgr EXCEPT !.item[i].status = "cancelled",
                          !.timers = @ \cup {i}]
    /\ UNCHANGED <<serverVars, keys, gen, rnew, call>>

\* removeUploadItem (lines 469-472), from a click on the remove button of a
\* completed item or from a timer
removeUploadItem(i) ==
    /\ \/ i \in mgr.activeUploads /\ mgr.item[i].status = "completed"
       \/ i \in mgr.timers
    /\ mgr' = [mgr EXCEPT !.activeUploads = @ \ {i}, !.timers = @ \ {i}]
    /\ UNCHANGED <<serverVars, keys, gen, rnew, call>>

\* the requests settle
settle == \E i \in Items : uploadResolves(i) \/ uploadRejects(i)

\* the user selects files, retries, cancels and removes at any time
NextFrontend ==
    \/ \E n \in 1..MaxItems : queueFiles(n)
    \/ settle
    \/ \E i \in Items : retryUpload(i)
    \/ \E i \in Items : cancelUpload(i)
    \/ \E i \in Items : removeUploadItem(i)

SpecFrontend == Init /\ [][NextFrontend]_vars

\* the user selects files and then leaves the page alone
NextUnattended ==
    \/ \E n \in 1..MaxItems : queueFiles(n)
    \/ settle
    \/ \E i \in Items : removeUploadItem(i)

\* every request settles, and timers fire
SpecUnattended ==
    /\ Init
    /\ [][NextUnattended]_vars
    /\ WF_vars(settle)
    /\ WF_vars(\E i \in Items : removeUploadItem(i))

\* ---- InfinityAPI.request (api.js:70-101) -----------------------------------
allVars == <<serverVars, keys, gen, rnew, mgr>>

\* the statuses of responses that are not ok
Statuses == {304, 400, 499, 500}

\* what _makeRequest throws (api.js:103-161): an APIError with the status of
\* the response (500 for a body that is not JSON), a TimeoutError when the
\* request was aborted, a NetworkError otherwise
Errors ==
    {[name |-> "APIError", status |-> st] : st \in Statuses} \cup
    {[name |-> "TimeoutError", status |-> 0],
     [name |-> "NetworkError", status |-> 0]}

\* const maxRetries = options.retries || CONFIG.RETRY_ATTEMPTS (line 72):
\* || takes the right operand when the left one is undefined or 0
maxRetriesOf(o) ==
    IF o.has /\ o.retries # 0 THEN o.retries ELSE RETRY_ATTEMPTS

\* request(endpoint, options) is called: lines 71-77, up to the first await
request(o) ==
    /\ call.pc = "idle"
    /\ call' = [call EXCEPT !.pc = "fetch", !.options = o,
                            !.maxRetries = maxRetriesOf(o), !.attempt = 0,
                            !.made = 1]
    /\ UNCHANGED allVars

\* _makeRequest resolves: return response (lines 77-78)
makeRequestResolves ==
    /\ call.pc = "fetch"
    /\ call' = [call EXCEPT !.pc = "returned"]
    /\ UNCHANGED allVars

\* error.status >= 400 && error.status < 500 (line 83)
clientError(e) == e.status >= 400 /\ e.status < 500

\* error instanceof TimeoutError (line 88)
isTimeout(e) == e.name = "TimeoutError"

\* _makeRequest rejects: the catch block (lines 79-97) throws, starts the
\* backoff timer, or leaves the loop and line 100 throws lastError
makeRequestRejects(e) ==
    /\ call.pc = "fetch"
    /\ call' = [call EXCEPT
                  !.lastError = e,
                  !.errors = Append(@, e),
                  !.pc = IF clientError(e) \/ isTimeout(e) THEN "thrown"
                         ELSE IF call.attempt < call.maxRetries THEN "wait"
                         ELSE "thrown",
                  !.attempt = IF clientError(e) \/ isTimeout(e)
                                 \/ call.attempt < call.maxRetries
                              THEN @ ELSE @ + 1]
    /\ UNCHANGED allVars

\* the backoff timer fires (line 95): attempt++ and the next _makeRequest
backoff ==
    /\ call.pc = "wait"
    /\ call' = [call EXCEPT !.pc = "fetch", !.attempt = @ + 1, !.made = @ + 1]
    /\ UNCHANGED allVars

NextRequest ==
    \/ \E o \in Options : request(o)
    \/ makeRequestResolves
    \/ \E e \in Errors : makeRequestRejects(e)
    \/ backoff

SpecRequest == Init /\ [][NextRequest]_vars

\* ---- properties -----------------------------------------------------------
RECURSIVE Concat(_)
Concat(ss) == IF ss = <<>> THEN <<>> ELSE Head(ss) \o Concat(Tail(ss))

CeilDiv(n, d) == (n + d - 1) \div d

\* the bytes a queued chunk's Data slice denotes now
payload(c) == SubSeq(heap[c.Data.buf], 1, c.Data.len)

IsPrefix(s, t) == Len(s) <= Len(t) /\ s = SubSeq(t, 1, Len(s))

\* C1: once a chunk is on the queue its payload is never written again, so
\* the bytes SendFile is given are the bytes of the frame as it was enqueued:
\* every queued payload, and the one being sent, still equals its frame, and
\* what SendFile has read is a prefix of that frame.
C1_PayloadHandOff ==
    /\ \A i \in 1..Len(queue) : payload(queue[i]) = queue[i].frame
    /\ wpc = "send" => payload(cur) = cur.frame
    /\ wpc \in {"send", "record"} => IsPrefix(sent, cur.frame)

\* C2: when the stream of a part has ended and its last frame is emitted, the
\* frames concatenated in emission order are the input bytes 1..total, in
\* order, whatever the sizes of the reads were.
C2_FramesReproduceInput ==
    \A r \in Reqs :
        up[r].pc = "finalize" =>
            Concat(up[r].frames) = Stream(up[r].parts, 1, up[r].total)

C2_Witness ==
    /\ up[1].pc = "finalize"
    /\ up[1].total = MaxLen
    /\ Len(up[1].frames) = 3

\* C3: a stream of L bytes is emitted as ceil(L/C) frames, each of length C
\* except the last, whose length is L - C*(ceil(L/C)-1), between 1 and C.
C3_FrameCountAndLengths ==
    \A r \in Reqs :
        up[r].pc = "finalize" =>
            LET L == up[r].total
                fs == up[r].frames
                n == CeilDiv(L, ChunkSize)
            IN /\ Len(fs) = n
               /\ \A i \in 1..(n - 1) : Len(fs[i]) = ChunkSize
               /\ n > 0 => /\ Len(fs[n]) = L - ChunkSize * (n - 1)
                           /\ Len(fs[n]) \in 1..ChunkSize

C3_Witness ==
    /\ up[1].pc = "finalize"
    /\ up[1].total = ChunkSize + 1
    /\ Len(up[1].frames) = 2
    /\ Len(up[1].frames[2]) = 1

\* the Chunk records of file f have the positions 1..n, each once
contiguous(f, n) ==
    /\ \A p \in 1..n :
          Cardinality({i \in 1..Len(chunks) :
                          chunks[i].FileID = f /\ chunks[i].Position = p}) = 1
    /\ \A i \in 1..Len(chunks) : chunks[i].FileID = f => chunks[i].Position \in 1..n

\* C4: in every state, a File whose status is completed has Chunk records at
\* exactly the positions 1..TotalChunks, each once, and
\* TotalChunks = ceil(Size / C).
C4_CompletedFileHasAllChunks ==
    \A f \in 1..Len(files) :
        files[f].Status = "completed" =>
            /\ contiguous(f, files[f].TotalChunks)
            /\ files[f].TotalChunks = CeilDiv(files[f].Size, ChunkSize)

\* the (FileID, Position) pairs of every chunk on the queue, held by the
\* worker or recorded in the store
chunkIds ==
    [i \in 1..Len(queue) |-> <<queue[i].FileID, queue[i].Position>>]
    \o (IF cur.FileID # 0 THEN <<<<cur.FileID, cur.Position>>>> ELSE <<>>)
    \o [i \in 1..Len(chunks) |-> <<chunks[i].FileID, chunks[i].Position>>]

\* C5: no two chunks that are enqueued or recorded have the same
\* (FileID, Position).
C5_ChunkIdentityUnique ==
    \A i, j \in 1..Len(chunkIds) : i # j => chunkIds[i] # chunkIds[j]

\* C6: a request answered 202 has made exactly one File-creation write and
\* exactly one finalize write.
C6_OneCreateOneFinalize ==
    \A r \in Reqs :
        up[r].resp = 202 => up[r].ncreate = 1 /\ up[r].nfinal = 1

\* AddChunkToFile was called for the chunk the worker holds: line 29 is
\* reached only after SendFile returned a reference (line 24)
recordAttempted == cur.TelegramFileID # 0

\* C7: no chunk taken from the queue is lost without a record attempt: when
\* the worker has stopped, the chunk it took has been through AddChunkToFile.
C7_NoQueuedChunkLost ==
    (wpc = "panic" /\ cur.FileID # 0) => recordAttempted

\* C8: a request that presents no key of the store is answered 401 and has
\* changed nothing: no File record, no Chunk record, nothing on the queue.
C8_UnauthorizedChangesNothing ==
    \A r \in Reqs :
        (up[r].pc # "idle" /\ ~up[r].known) =>
            /\ up[r].pc = "done" /\ up[r].resp = 401
            /\ up[r].ncreate = 0 /\ up[r].fileID = 0
            /\ files = <<>> /\ chunks = <<>> /\ queue = <<>> /\ cur = NoChunk

C8_Witness ==
    /\ up[1].resp = 401
    /\ ~up[1].known
    /\ up[1].ct = "mp_boundary"

\* the request has one of the BadRequest defects: content type not
\* multipart/form-data, no boundary parameter, or a body that ended without
\* a part named "file"
badRequest(r) ==
    /\ up[r].pc # "idle"
    /\ \/ ~isMultipart(up[r].ct)
       \/ boundaryEmpty(up[r].ct)
       \/ up[r].resp = 202 /\ up[r].nfile = 0

\* C9: a request with a BadRequest defect creates no File record and is not
\* answered 202.
C9_BadRequestBeforeFile ==
    \A r \in Reqs :
        badRequest(r) => up[r].ncreate = 0 /\ up[r].resp # 202

\* both Files are completed and their Chunk records are 1..TotalChunks
bothComplete ==
    \A r \in Reqs :
        /\ up[r].fileID # 0
        /\ files[up[r].fileID].Status = "completed"
        /\ contiguous(up[r].fileID, files[up[r].fileID].TotalChunks)

\* C10: two concurrent uploads, one worker, no adapter failure: eventually
\* both Files are completed with the Chunk records 1..TotalChunks, for good.
C10_BothUploadsComplete == <>[]bothComplete

\* both done, three chunks each, and the worker's writes of the two files
\* interleave
C10_Witness ==
    /\ bothComplete
    /\ \A r \in Reqs : files[up[r].fileID].TotalChunks = 3
    /\ Len(chunks) = 6
    /\ chunks[1].FileID # chunks[2].FileID
    /\ chunks[2].FileID # chunks[3].FileID


\* every chunk object: on the queue, with the worker, or a row of the store
allChunks ==
    queue \o (IF cur.FileID # 0 THEN <<cur>> ELSE <<>>) \o chunks

\* C11: the File record of an upload exists, as the placeholder (empty name,
\* size 0, no chunks, uploading, owned by the validated key), before the
\* upload reads its first part, and every chunk on the queue, with the worker
\* or in the store carries the FileID of an existing File record.
C11_FileBeforeChunks ==
    /\ \A r \in Reqs :
          up[r].ncreate > 0 =>
              /\ up[r].fileID \in 1..Len(files)
              /\ up[r].nfile = 0 =>
                    /\ files[up[r].fileID] = NewFile(up[r].key)
                    /\ up[r].key \in storedKeys
                    /\ up[r].enq = <<>>
    /\ \A i \in 1..Len(allChunks) : allChunks[i].FileID \in 1..Len(files)

C11_Witness ==
    /\ Len(queue) = 1
    /\ queue[1].FileID = up[1].fileID
    /\ files[queue[1].FileID].Status = "uploading"
    /\ chunks = <<>>

RECURSIVE SumCeil(_)
\* the number of frames streams of these sizes make
SumCeil(ls) ==
    IF ls = <<>> THEN 0 ELSE CeilDiv(Head(ls), ChunkSize) + SumCeil(Tail(ls))

\* C12: when a request is answered 202, every chunk of every stream it read
\* (ceil(size / C) per stream) has been pushed onto the queue.
C12_AcceptedAfterAllQueued ==
    \A r \in Reqs :
        up[r].resp = 202 => Len(up[r].enq) = SumCeil(up[r].sizes)

\* answered 202 with all three chunks still on the queue and none persisted
C12_Witness ==
    /\ up[1].resp = 202
    /\ up[1].sizes = <<MaxLen>>
    /\ Len(queue) = 3
    /\ chunks = <<>>
    /\ wpc = "recv"

\* the handler of r is at a channel send and the channel is full
blockedOnSend(r) ==
    /\ Len(queue) = QueueCap
    /\ \/ up[r].pc = "push"
       \/ up[r].pc = "tail" /\ hasTail(up[r].chunk)

\* C13: the queue never holds more than QueueCap chunks; a handler at a send
\* on the full queue does not move (reads nothing, enqueues nothing) in any
\* step, so only after the worker's receive; and the worker at its receive
\* on the empty queue does not move.
C13_BoundedBlockingQueue ==
    /\ [](Len(queue) <= QueueCap)
    /\ [][\A r \in Reqs : blockedOnSend(r) =>
              /\ up'[r] = up[r]
              /\ Len(queue') <= Len(queue)]_vars
    /\ [][(wpc = "recv" /\ queue = <<>>) => (wpc' = "recv" /\ cur' = cur)]_vars

\* the handler holds a full chunk and unread bytes at the full queue
C13_Witness ==
    /\ blockedOnSend(1)
    /\ up[1].pc = "push"
    /\ up[1].rerr = "nil"


\* C14: every Chunk record the worker writes after a successful put has
\* status persisted, a non-empty external reference and no raw bytes.
C14_RecordIsPersisted ==
    \A i \in 1..Len(chunks) :
        /\ chunks[i].Status = "persisted"
        /\ chunks[i].TelegramFileID # 0
        /\ chunks[i].Data = 0

\* C15: every chunk on the queue was constructed with status pending and an
\* empty external reference, and the k-th chunk a request enqueued has
\* position k.
C15_QueuedChunkIsPending ==
    /\ \A i \in 1..Len(queue) :
          /\ queue[i].Status = "pending"
          /\ queue[i].TelegramFileID = 0
    /\ \A r \in Reqs :
          \A k \in 1..Len(up[r].enq) : up[r].enq[k] = k

\* C16: a request that ended on a non-EOF read error was answered 500,
\* enqueued the full frames only (none for the bytes left in the buffer),
\* made no finalize write, and its File record is still the placeholder in
\* status uploading.
C16_ReadErrorAborts ==
    \A r \in Reqs :
        (up[r].pc = "done" /\ up[r].rerr = "err") =>
            /\ up[r].resp = 500
            /\ Len(up[r].enq) =
                  SumCeil(up[r].sizes) + up[r].total \div ChunkSize
            /\ up[r].nfinal = 0
            /\ files[up[r].fileID] = NewFile(up[r].key)

\* the handler of r is reading the stream of a part or enqueuing its chunks
draining(r) == up[r].pc \in {"read", "push", "tail"}

\* C17: while a request is still reading or enqueuing data its File record
\* is the placeholder: empty name, size 0, chunk count 0, status uploading.
C17_ProvisionalUntilDrained ==
    \A r \in Reqs :
        draining(r) => files[up[r].fileID] = NewFile(up[r].key)

\* C18: every enqueued chunk is on the queue, with the worker or in the
\* store, in exactly one of these places and once: the worker holds a chunk
\* exactly between its receive and its AddChunkToFile, no chunk has two
\* records, and no two records carry the reference of the same SendFile call.
C18_ProcessedExactlyOnce ==
    /\ \A i, j \in 1..Len(allChunks) :
          i # j => allChunks[i].seq # allChunks[j].seq
    /\ Len(allChunks) = Len(up[1].enq) + Len(up[2].enq)
    /\ (wpc = "recv") <=> (cur = NoChunk)
    /\ \A i, j \in 1..Len(chunks) :
          i # j => chunks[i].TelegramFileID # chunks[j].TelegramFileID

\* chunks of both uploads recorded, one with the worker, one on the queue
C18_Witness ==
    /\ \E i, j \in 1..Len(chunks) : chunks[i].FileID # chunks[j].FileID
    /\ wpc = "record"
    /\ queue # <<>>

\* C19: the positions of the chunks one request enqueues are 1, 2, 3, ... in
\* enqueue order.
C19_PositionsCountFromOne ==
    \A r \in Reqs :
        \A k \in 1..Len(up[r].enq) : up[r].enq[k] = k

\* the only "file" part r has read so far was a stream of no bytes
zeroByteUpload(r) == up[r].nfile = 1 /\ up[r].sizes = <<0>>

\* C20: the upload of a 0-byte file enqueues no chunk and creates no Chunk
\* record, and its finalize write leaves the File with size 0, chunk count 0
\* and status completed.
C20_ZeroByteFile ==
    \A r \in Reqs :
        zeroByteUpload(r) =>
            /\ up[r].enq = <<>>
            /\ allChunks = <<>>
            /\ up[r].nfinal = 1 =>
                  files[up[r].fileID] =
                      [NewFile(up[r].key) EXCEPT !.FileName = up[r].filename,
                                                 !.Status = "completed"]

C20_Witness ==
    /\ zeroByteUpload(1)
    /\ up[1].nfinal = 1
    /\ up[1].resp = 202
    /\ files[up[1].fileID].Status = "completed"


\* the frames of r that are not the short last one
fullFrames(r) == SelectSeq(up[r].frames, LAMBDA f : Len(f) = ChunkSize)

\* C21: two framings of the same byte sequence, read in whatever pieces,
\* emit the same frames: the same full frames as far as both have got, and
\* once both streams have ended at the same length the same number of
\* frames with the same bytes and the same positions.
C21_FramingDeterministic ==
    \A r1, r2 \in Reqs :
        /\ \A k \in 1..Len(fullFrames(r1)) :
              k <= Len(fullFrames(r2)) => fullFrames(r1)[k] = fullFrames(r2)[k]
        /\ (up[r1].sizes # <<>> /\ up[r1].sizes = up[r2].sizes) =>
              /\ up[r1].frames = up[r2].frames
              /\ up[r1].enq = up[r2].enq

\* both streams of 2C-1 bytes have ended, framed as a full and a short frame
C21_Witness ==
    /\ up[1].sizes = <<ShortLen - 1>>
    /\ up[2].sizes = <<ShortLen - 1>>
    /\ Len(up[1].frames) = 2
    /\ Len(up[2].frames[2]) = ChunkSize - 1


\* the handler of r is between the start of the request and its response
inFlight(r) == up[r].pc \notin {"idle", "done"}

\* C22: what the worker's SendFile and AddChunkToFile calls return has no
\* effect on the response of a request: no failure of the worker leaves a
\* request that was being served without its response.
C22_ResponseIndependentOfWorker ==
    \A r \in Reqs : inFlight(r) => alive

\* C23: a request with a "file" part that is answered 202 has its File
\* record finalized: status completed with the name, size and chunk count of
\* the part read last.
C23_AcceptedImpliesFinalized ==
    \A r \in Reqs :
        (up[r].resp = 202 /\ up[r].nfile > 0) =>
            files[up[r].fileID] =
                [NewFile(up[r].key) EXCEPT
                    !.FileName = up[r].filename,
                    !.Size = up[r].total,
                    !.TotalChunks = CeilDiv(up[r].total, ChunkSize),
                    !.Status = "completed"]

\* the request of r ended on a read error of its stream
aborted(r) == up[r].pc = "done" /\ up[r].rerr = "err"

\* all chunks ever enqueued are recorded and none is queued or in the worker
allRecorded ==
    /\ queue = <<>>
    /\ cur = NoChunk
    /\ Len(chunks) = Len(up[1].enq) + Len(up[2].enq)

\* C24: the step that aborts a request on a read error removes nothing from
\* the queue, and after the abort every chunk the request had enqueued is
\* dequeued, sent and recorded by the worker.
C24_AbortKeepsQueuedChunks ==
    /\ [][\A r \in Reqs :
              (aborted(r)' /\ ~aborted(r)) => IsPrefix(queue, queue')]_vars
    /\ \A r \in Reqs : aborted(r) ~> allRecorded

\* aborted with two chunks enqueued, none of them recorded yet
C24_Witness ==
    /\ aborted(1)
    /\ Len(up[1].enq) = 2
    /\ Len(queue) = 2
    /\ chunks = <<>>

\* C25: after an error of SendFile or AddChunkToFile the worker does nothing
\* more: no further put, no record, no receive; a chunk whose put failed has
\* no record; and no chunk leaves the queue without being held by the worker
\* or recorded.
C25_WorkerFailsLoud ==
    /\ [](Len(allChunks) = Len(up[1].enq) + Len(up[2].enq))
    /\ []((wpc = "panic" /\ cur.TelegramFileID = 0) =>
              \A i \in 1..Len(chunks) : chunks[i].seq # cur.seq)
    /\ [][wpc = "panic" =>
              /\ wpc' = "panic"
              /\ cur' = cur
              /\ sent' = sent
              /\ chunks' = chunks
              /\ queue' = queue]_vars

\* SendFile failed for the second chunk while a third is still queued
C25_Witness ==
    /\ wpc = "panic"
    /\ cur.TelegramFileID = 0
    /\ Len(chunks) = 1
    /\ queue # <<>>

\* C30: for every file the Chunk records are written in strictly increasing
\* position order.
C30_RecordsInPositionOrder ==
    \A i, j \in 1..Len(chunks) :
        (i < j /\ chunks[i].FileID = chunks[j].FileID) =>
            chunks[i].Position < chunks[j].Position


\* C26: no two Key records hold the same key string, and a key NewAPIKey
\* returned is the key of exactly one record.
C26_KeysUnique ==
    /\ \A i, j \in 1..Len(keys) : i # j => keys[i].Key # keys[j].Key
    /\ \A g \in Callers :
          gen[g].code = 200 =>
              Cardinality({i \in 1..Len(keys) : keys[i].Key = gen[g].ret}) = 1


\* C29: a POST /new answered 202 has created a File in status uploading
\* with the declared size, and number_of_chunks is the least n such that n
\* chunks of the chunk size cover the declared size; size 0 gives 0.
C29_NumberOfChunks ==
    \A k \in 1..Len(rnew) :
        rnew[k].code = 202 =>
            LET n == rnew[k].number_of_chunks
                f == files[rnew[k].file_id]
            IN /\ n >= 0
               /\ n * NewChunkSize >= rnew[k].size
               /\ n > 0 => (n - 1) * NewChunkSize < rnew[k].size
               /\ f.Status = "uploading"
               /\ f.Size = rnew[k].size
               /\ f.TotalChunks = n

\* a size between one and two chunks gives 2 (15000000 bytes with chunks of
\* 10 MiB), size 0 gives 0
C29_Witness ==
    /\ Len(rnew) = 2
    /\ rnew[1] = [code |-> 202, file_id |-> 1, number_of_chunks |-> 2,
                  size |-> NewChunkSize + 1]
    /\ rnew[2] = [code |-> 202, file_id |-> 2, number_of_chunks |-> 0,
                  size |-> 0]


\* the upload items in status 'uploading', listed or not
uploading == {i \in Items : mgr.item[i].status = "uploading"}

\* C27: at no time are more than maxConcurrentUploads upload items in status
\* 'uploading'.
C27_AtMostThreeUploading ==
    Cardinality(uploading) <= maxConcurrentUploads

\* one upload runs while every other selected file waits in the queue
C27_Witness ==
    /\ Cardinality(uploading) = 1
    /\ Len(mgr.uploadQueue) = MaxItems - 1
    /\ mgr.isProcessing

\* C28: an upload item that failed with retry attempts left is uploaded
\* again without a click of the user.
C28_FailedIsRetried ==
    \A i \in Items :
        (mgr.item[i].status = "failed" /\ mgr.item[i].retryCount < RETRY_ATTEMPTS)
            ~> (mgr.item[i].status = "uploading")


RECURSIVE SumBytes(_)
\* the bytes of streams of these sizes; every byte read is in one chunk
SumBytes(ls) == IF ls = <<>> THEN 0 ELSE Head(ls) + SumBytes(Tail(ls))

\* the step is a successful finalize mutation of request r
finalizes(r) == up[r].pc = "finalize" /\ up'[r].nfinal = up[r].nfinal + 1

\* C31: a successful finalize mutation writes, as TotalChunks, the number of
\* chunks the request has enqueued with the FileID and, as Size, the sum of
\* their sizes (the bytes of all the "file" parts read so far).
C31_FinalizedMatchesEnqueued ==
    [][\A r \in Reqs :
          finalizes(r) =>
              /\ files'[up[r].fileID].TotalChunks = Len(up[r].enq)
              /\ files'[up[r].fileID].Size = SumBytes(up[r].sizes)]_vars

\* the chunks that were received from the queue and are not yet recorded
dequeued == Len(up[1].enq) + Len(up[2].enq) - Len(queue) - Len(chunks)

\* C33: at most one chunk is off the queue and not yet recorded, it is the
\* one the worker holds, and bytes are being sent only for that chunk.
C33_OnePutAtATime ==
    /\ dequeued \in {0, 1}
    /\ dequeued = 1 <=> cur # NoChunk
    /\ dequeued = 1 <=> wpc \in {"send", "record"}
    /\ sent # <<>> => wpc \in {"send", "record"}

\* a put is in flight while chunks of both uploads wait on the queue
C33_Witness ==
    /\ wpc = "send"
    /\ sent # <<>>
    /\ \E i, j \in 1..Len(queue) : queue[i].FileID # queue[j].FileID

\* the step of r takes a part that is not named "file"
skipsPart(r) == up'[r].parts = up[r].parts + 1 /\ up'[r].nfile = up[r].nfile

\* C34: a step that skips a part not named "file" enqueues no chunk, leaves
\* the position counter and the total as they are and leaves the File
\* records unchanged.
C34_OtherPartsSkipped ==
    [][\A r \in Reqs :
          skipsPart(r) =>
              /\ queue' = queue
              /\ files' = files
              /\ chunks' = chunks
              /\ up'[r] = [up[r] EXCEPT !.parts = @ + 1]]_vars

\* an unnamed part skipped after a "file" part that enqueued chunks
C34_Witness ==
    /\ up[1].parts = 2
    /\ up[1].nfile = 1
    /\ up[1].pc = "nextpart"
    /\ Len(up[1].enq) = 3
    /\ up[1].chunkIndex = 3

\* C36: an upload item in status 'cancelled' keeps that status.
C36_CancelledStaysCancelled ==
    [][\A i \in Items :
          mgr.item[i].status = "cancelled" =>
              mgr'.item[i].status = "cancelled"]_vars


maxRetriesAsGiven(o) == IF o.has THEN o.retries ELSE RETRY_ATTEMPTS

\* the failures of a call that were followed by another attempt
retriedErrors == SubSeq(call.errors, 1, call.made - 1)

\* C35: request() makes at most retries + 1 attempts (RETRY_ATTEMPTS + 1
\* when the option is absent); an error it retried was neither a 4xx nor a
\* timeout; it gives up on another failure only after the last attempt; and
\* it returns the first response, every attempt before having failed.
C35_RequestRetries ==
    /\ call.made <= maxRetriesAsGiven(call.options) + 1
    /\ \A k \in 1..Len(retriedErrors) :
          ~clientError(retriedErrors[k]) /\ ~isTimeout(retriedErrors[k])
    /\ (call.pc = "thrown" /\ ~clientError(call.lastError)
          /\ ~isTimeout(call.lastError)) =>
            call.made = maxRetriesAsGiven(call.options) + 1
    /\ call.pc = "returned" => Len(call.errors) = call.made - 1
    /\ call.pc = "thrown" =>
          call.lastError = call.errors[Len(call.errors)]


====
